---- MODULE Spec2Model ----
(***************************************************************************)
(* The Router of packages/router/src/Router.ts: the middleware list, the   *)
(* mitt emitter with its three event kinds, the registration calls, and    *)
(* the dispatch loop of routeSync / routeAsync.                            *)
(*                                                                         *)
(* JavaScript runs one call at a time: a routeSync call, and every segment *)
(* of a routeAsync call between two awaits, runs to completion.  A         *)
(* dispatch is a slot of d with a position pc; while some slot is between  *)
(* two suspension points (Busy) no other call starts.                      *)
(***************************************************************************)
EXTENDS Integers, Sequences, FiniteSets, TLC

VARIABLES
  middleware,   \* Router.middleware: the ordered list of registered middleware
  listeners,    \* Router.emitter: event kind -> handlers in subscription order
  d,            \* the dispatch calls: slot -> locals of routeSync / routeAsync
  raised,       \* what the latest on / off / use call raised to its caller
  registered,   \* history: the entries of the successful registrations, in call order
  handedOff     \* history: on('error', ...) has been called at least once

vars == <<middleware, listeners, d, raised, registered, handedOff>>

-----------------------------------------------------------------------------
(* Bounds *)

MaxMiddleware == 2    \* registrations are accepted while the list is shorter
MaxListeners == 2     \* subscriptions are accepted while fewer user handlers are subscribed
MaxIter == 2          \* loop iterations of one dispatch

-----------------------------------------------------------------------------
(* JavaScript values *)

Undefined == "undefined"
Fn == "fn"                 \* a function value (a raw middleware)
Static == "static"         \* the partial response {status: 200, body: 'ok'}
NoError == "none"
TypeError == "TypeError: Invalid arguments."
MiddlewareError == "Error: thrown by middleware"
NormaliseError == "Error: thrown by normaliseRequest"
Missing == [none |-> TRUE]  \* a local that is not assigned yet

TypeOf(v) == IF v = Fn THEN "function" ELSE IF v = Undefined THEN "undefined" ELSE "string"

Truthy(v) == v \notin {Undefined, ""}

\* {...a, ...b}: the fields of a, overridden and extended by those of b
Spread(a, b) ==
  [k \in (DOMAIN a) \cup (DOMAIN b) |-> IF k \in DOMAIN b THEN b[k] ELSE a[k]]

Kinds == {"before", "after", "error"}
defaultErrorListener == "defaultErrorListener"
Quiet == "quiet"           \* a user listener that returns
Thrower == "thrower"       \* a user listener that throws when invoked
UserListeners == {Quiet, Thrower}

\* the exception a throwing listener raises when invoked for an event of this kind
ListenerError(kind) == "Error: thrown by " \o kind \o " listener"

-----------------------------------------------------------------------------
(* mitt *)

\* mitt(): no handler of any kind
mitt == [k \in Kinds |-> <<>>]

IndexOf(s, x) ==
  IF \E i \in 1..Len(s) : s[i] = x
  THEN CHOOSE i \in 1..Len(s) : s[i] = x /\ \A j \in 1..(i - 1) : s[j] # x
  ELSE 0

\* emitter.on(type, handler): push
EmitterOn(handlers, type, handler) == [handlers EXCEPT ![type] = Append(@, handler)]

\* emitter.off(type, handler): splice out the first occurrence, if any
EmitterOff(handlers, type, handler) ==
  LET s == handlers[type]
      i == IndexOf(s, handler)
  IN IF i = 0 THEN handlers
     ELSE [handlers EXCEPT ![type] = SubSeq(s, 1, i - 1) \o SubSeq(s, i + 1, Len(s))]

\* emitter.emit(type, event): the handlers are called in order; a handler that
\* throws ends the emit, and its exception leaves emit.
Invoked(handlers, type) ==
  LET s == handlers[type]
      i == IndexOf(s, Thrower)
  IN IF i = 0 THEN s ELSE SubSeq(s, 1, i)

EmitThrows(handlers, type) ==
  IF IndexOf(handlers[type], Thrower) = 0 THEN NoError ELSE ListenerError(type)

-----------------------------------------------------------------------------
(* The collaborators of utils/: normalise, createMiddleware, the chain     *)
(* executors routeSync / routeAsync, isRedirect                            *)

\* the partial requests a caller passes
GetX == [method |-> "get", url |-> "/x"]
PostX == [method |-> "post", url |-> "/x"]
Malformed == [malformed |-> TRUE]      \* a value normaliseRequest throws on
PartialRequests == {GetX, PostX, Malformed}

NormaliseThrows(request) == "malformed" \in DOMAIN request

normaliseRequest(request) == Spread([method |-> "get", url |-> "/"], request)

normaliseContext(context) == context

\* createMiddleware(method, path, middlewareOrResponse): one uniform middleware
createMiddleware(method, path, middlewareOrResponse) ==
  [kind |-> "route", method |-> method, path |-> path, handler |-> middlewareOrResponse]

\* a function registered as it is
RawMiddleware(f) ==
  [kind |-> "raw", method |-> Undefined, path |-> Undefined, handler |-> f]

Matches(request, m) ==
  m.kind = "raw" \/ (m.method \in {"*", request.method} /\ m.path = request.url)

Ok200 == [status |-> 200, body |-> "ok"]
Moved301 == [status |-> 301, body |-> ""]
Extended200 == [status |-> 200, body |-> "ok", redirected |-> TRUE, url |-> "/elsewhere"]
NotFound404 == [status |-> 404, body |-> ""]

Responds(response) == [response |-> response, error |-> NoError]
Throws(error) == [response |-> Missing, error |-> error]

\* what one call of the handler can do: a function is arbitrary user code that
\* responds, throws, or passes to the next middleware; a static response responds.
HandlerOutcomes(handler) ==
  IF handler = Fn
  THEN {Responds(Moved301), Responds(Extended200), Throws(MiddlewareError), Missing}
  ELSE {Responds(Ok200)}

\* the chain executor: the middleware in list order from position k, the first
\* that matches and responds (or throws) decides; none: the not-found response
RECURSIVE ChainFrom(_, _, _)
ChainFrom(request, list, k) ==
  IF k > Len(list) THEN {Responds(NotFound404)}
  ELSE IF ~Matches(request, list[k]) THEN ChainFrom(request, list, k + 1)
  ELSE LET here == HandlerOutcomes(list[k].handler)
       IN (here \ {Missing})
            \cup (IF Missing \in here THEN ChainFrom(request, list, k + 1) ELSE {})

ChainOutcomes(request, context, list) == ChainFrom(request, list, 1)

isRedirect(response) == response.status \in {301, 302, 303, 307, 308}

-----------------------------------------------------------------------------
(* Router: construction, on, off *)

\* the locals of a dispatch call that has not started
Idle ==
  [pc |-> "idle", mode |-> "none", request |-> Missing, context |-> Missing,
   options |-> Missing, response |-> Missing,
   error |-> NoError, result |-> Missing, thrown |-> NoError,
   log |-> <<>>, notified |-> <<>>]

\* a routeAsync that also suspends ahead of its after emission
BusyButForAfter == \E i \in DOMAIN d : d[i].pc \notin {"idle", "await", "after"}

\* a call runs: no other call starts before it suspends or its outcome is taken
Busy == \E i \in DOMAIN d : d[i].pc \notin {"idle", "await"}

Subscribed == Len(listeners["before"]) + Len(listeners["after"]) + Len(listeners["error"])

\* a constructor that subscribes nothing
ConstructedWithoutDefault == mitt

\* constructor: the emitter with the default error listener subscribed
Constructed == EmitterOn(mitt, "error", defaultErrorListener)

\* on that leaves the default error listener subscribed
OnListenersKeepingDefault(handlers, type, listener) == EmitterOn(handlers, type, listener)

\* on(type, listener): subscribe; for 'error', take the default listener off
OnListeners(handlers, type, listener) ==
  LET added == EmitterOn(handlers, type, listener)
  IN IF type = "error" THEN EmitterOff(added, "error", defaultErrorListener) ELSE added

\* off(type, listener)
OffListeners(handlers, type, listener) == EmitterOff(handlers, type, listener)

on(type, listener) ==
  /\ ~Busy
  /\ Subscribed < MaxListeners
  /\ listeners' = OnListeners(listeners, type, listener)
  /\ handedOff' = (handedOff \/ type = "error")
  /\ raised' = NoError
  /\ UNCHANGED <<middleware, d, registered>>

off(type, listener) ==
  /\ ~Busy
  /\ listeners' = OffListeners(listeners, type, listener)
  /\ raised' = NoError
  /\ UNCHANGED <<middleware, d, registered, handedOff>>

-----------------------------------------------------------------------------
(* Router: use and the verb aliases *)

\* use that puts the new entry at the head of the list
UseOutcomeUnshift(list, methodOrMiddleware, path, middlewareOrResponse) ==
  IF TypeOf(methodOrMiddleware) = "function"
  THEN [middleware |-> <<RawMiddleware(methodOrMiddleware)>> \o list, raised |-> NoError]
  ELSE IF Truthy(path) /\ Truthy(middlewareOrResponse)
  THEN [middleware |-> <<createMiddleware(methodOrMiddleware, path, middlewareOrResponse)>> \o list,
        raised |-> NoError]
  ELSE [middleware |-> list, raised |-> TypeError]

\* use that does not check path and middlewareOrResponse
UseOutcomeUnchecked(list, methodOrMiddleware, path, middlewareOrResponse) ==
  IF TypeOf(methodOrMiddleware) = "function"
  THEN [middleware |-> Append(list, RawMiddleware(methodOrMiddleware)), raised |-> NoError]
  ELSE [middleware |-> Append(list, createMiddleware(methodOrMiddleware, path, middlewareOrResponse)),
        raised |-> NoError]

\* use(methodOrMiddleware, path, middlewareOrResponse): the list afterwards and
\* what the call raises
UseOutcome(list, methodOrMiddleware, path, middlewareOrResponse) ==
  IF TypeOf(methodOrMiddleware) = "function"
  THEN [middleware |-> Append(list, RawMiddleware(methodOrMiddleware)), raised |-> NoError]
  ELSE IF Truthy(path) /\ Truthy(middlewareOrResponse)
  THEN [middleware |-> Append(list, createMiddleware(methodOrMiddleware, path, middlewareOrResponse)),
        raised |-> NoError]
  ELSE [middleware |-> list, raised |-> TypeError]

\* history: the entry a registration that did not raise stands for
EntryOf(methodOrMiddleware, path, middlewareOrResponse) ==
  IF methodOrMiddleware = Fn THEN RawMiddleware(Fn)
  ELSE createMiddleware(methodOrMiddleware, path, middlewareOrResponse)

use(methodOrMiddleware, path, middlewareOrResponse) ==
  LET out == UseOutcome(middleware, methodOrMiddleware, path, middlewareOrResponse)
  IN /\ ~Busy
     /\ Len(middleware) < MaxMiddleware
     /\ middleware' = out.middleware
     /\ raised' = out.raised
     /\ registered' = IF out.raised = NoError
                      THEN Append(registered, EntryOf(methodOrMiddleware, path, middlewareOrResponse))
                      ELSE registered
     /\ UNCHANGED <<listeners, d, handedOff>>

\* a post alias that registers under another verb
PostAsPut(path, middlewareOrResponse) == use("put", path, middlewareOrResponse)

all(path, middlewareOrResponse) == use("*", path, middlewareOrResponse)
options(path, middlewareOrResponse) == use("options", path, middlewareOrResponse)
head(path, middlewareOrResponse) == use("head", path, middlewareOrResponse)
get(path, middlewareOrResponse) == use("get", path, middlewareOrResponse)
post(path, middlewareOrResponse) == use("post", path, middlewareOrResponse)
put(path, middlewareOrResponse) == use("put", path, middlewareOrResponse)
patch(path, middlewareOrResponse) == use("patch", path, middlewareOrResponse)
delete(path, middlewareOrResponse) == use("delete", path, middlewareOrResponse)

-----------------------------------------------------------------------------
(* Router: routeSync and routeAsync *)

\* options: RouteOptions = {redirect: 'follow'}
DefaultOptions == [redirect |-> "follow"]
Omitted == [omitted |-> TRUE]           \* the argument is not passed
OptionsArgs == {Omitted, [redirect |-> "follow"], [redirect |-> Undefined]}

OptionsOf(arg) == IF arg = Omitted THEN DefaultOptions ELSE arg

\* a context tagged Synchronous whichever entry point was called
ExecutionOfEitherSync(mode) == "Synchronous"

ExecutionOf(mode) == IF mode = "sync" THEN "Synchronous" ELSE "Asynchronous"

\* a loop body that emits no after event
LoopBodyWithoutAfter == <<"before", "exec", "decide">>

\* the statements of the loop body, in order; the while condition is "decide"
LoopBody == <<"before", "exec", "after", "decide">>

Following(pc) == LoopBody[IndexOf(LoopBody, pc) + 1]

\* while (options.redirect && isRedirect(normalisedResponse))
Classifies(opts) == Truthy(opts.redirect)

\* a while condition that never holds: the loop body runs once
LoopAgainNever(opts, response) == FALSE

\* a while condition that does not look at options.redirect
LoopAgainWhateverOption(opts, response) == isRedirect(response)

LoopAgain(opts, response) == Classifies(opts) /\ isRedirect(response)

\* {url: normalisedRequest.url, redirected: false, ...normalisedResponse}
RouteResult(request, response) ==
  Spread([url |-> request.url, redirected |-> FALSE], response)

\* catch (error) {emitErrorEvent(...); throw error}: what leaves the call
Rethrown(error, handlers) ==
  IF EmitThrows(handlers, "error") = NoError THEN error ELSE EmitThrows(handlers, "error")

\* one entry of a dispatch's log: an event emitted, or a collaborator called
Logged(kind, s, response, error) ==
  [kind |-> kind, request |-> s.request, context |-> s.context,
   response |-> response, error |-> error]

CountOf(log, kind) == Cardinality({k \in 1..Len(log) : log[k].kind = kind})

\* a dispatch that normalises inside the try block: the failure is caught
RouteNormalisingInTry(i, mode, request, optionsArg) ==
  /\ ~Busy
  /\ d[i].pc = "idle"
  /\ d' = [d EXCEPT ![i] =
             IF NormaliseThrows(request)
             THEN [Idle EXCEPT !.pc = "catch", !.mode = mode, !.error = NormaliseError]
             ELSE [Idle EXCEPT !.pc = LoopBody[1], !.mode = mode,
                               !.request = normaliseRequest(request),
                               !.context = normaliseContext([execution |-> ExecutionOf(mode)]),
                               !.options = OptionsOf(optionsArg)]]
  /\ UNCHANGED <<middleware, listeners, raised, registered, handedOff>>

\* routeSync(request, options) / routeAsync(request, options) is called:
\* normalise, then enter the try block
Route(i, mode, request, optionsArg) ==
  /\ ~Busy
  /\ d[i].pc = "idle"
  /\ d' = [d EXCEPT ![i] =
             IF NormaliseThrows(request)
             THEN [Idle EXCEPT !.pc = "raised", !.mode = mode, !.thrown = NormaliseError]
             ELSE [Idle EXCEPT !.pc = LoopBody[1], !.mode = mode,
                               !.request = normaliseRequest(request),
                               !.context = normaliseContext([execution |-> ExecutionOf(mode)]),
                               !.options = OptionsOf(optionsArg)]]
  /\ UNCHANGED <<middleware, listeners, raised, registered, handedOff>>

routeSync(i, request, optionsArg) == Route(i, "sync", request, optionsArg)

routeAsync(i, request, optionsArg) == Route(i, "async", request, optionsArg)

\* this.emitBeforeEvent(normalisedRequest, normalisedContext)
EmitBefore(i) ==
  LET s == d[i]
      threw == EmitThrows(listeners, "before")
  IN /\ s.pc = "before"
     /\ d' = [d EXCEPT ![i] =
                [s EXCEPT !.log = Append(@, Logged("before", s, Missing, NoError)),
                          !.error = threw,
                          !.pc = IF threw = NoError THEN Following("before") ELSE "catch"]]
     /\ UNCHANGED <<middleware, listeners, raised, registered, handedOff>>

\* what the resumed (or synchronous) executor call leaves in the locals
Settled(s, outcome) ==
  IF outcome.error = NoError
  THEN [s EXCEPT !.response = outcome.response, !.pc = Following("exec")]
  ELSE [s EXCEPT !.error = outcome.error, !.pc = "catch"]

\* an executor argument frozen at the dispatch's first iteration
ListHandedAtFirst(s) ==
  LET execs == SelectSeq(s.log, LAMBDA e : e.kind = "exec")
  IN IF execs = <<>> THEN middleware ELSE execs[1].list

\* the executor's fourth argument: this.middleware, read at the call
ListHanded(s) == middleware

\* normalisedResponse = routeSync(...) / await routeAsync(...), with this.middleware
Execute(i) ==
  LET s == d[i]
      called == [s EXCEPT !.log = Append(@, Spread(Logged("exec", s, Missing, NoError),
                                                   [list |-> ListHanded(s)]))]
  IN /\ s.pc = "exec"
     /\ IF s.mode = "sync"
        THEN \E outcome \in ChainOutcomes(s.request, s.context, ListHanded(s)) :
               d' = [d EXCEPT ![i] = Settled(called, outcome)]
        ELSE d' = [d EXCEPT ![i] = [called EXCEPT !.pc = "await"]]
     /\ UNCHANGED <<middleware, listeners, raised, registered, handedOff>>

\* the awaited promise has settled and the call is resumed: the executor has
\* run the list it was handed
Resume(i) ==
  /\ ~Busy
  /\ d[i].pc = "await"
  /\ \E outcome \in ChainOutcomes(d[i].request, d[i].context, d[i].log[Len(d[i].log)].list) :
       d' = [d EXCEPT ![i] = Settled(d[i], outcome)]
  /\ UNCHANGED <<middleware, listeners, raised, registered, handedOff>>

\* this.emitAfterEvent(normalisedRequest, normalisedResponse, normalisedContext)
EmitAfter(i) ==
  LET s == d[i]
      threw == EmitThrows(listeners, "after")
  IN /\ s.pc = "after"
     /\ d' = [d EXCEPT ![i] =
                [s EXCEPT !.log = Append(@, Logged("after", s, s.response, NoError)),
                          !.error = threw,
                          !.pc = IF threw = NoError THEN Following("after") ELSE "catch"]]
     /\ UNCHANGED <<middleware, listeners, raised, registered, handedOff>>

\* the while condition, then the next iteration or the return
Decide(i) ==
  LET s == d[i]
      asked == IF Classifies(s.options)
               THEN [s EXCEPT !.log = Append(@, Logged("classify", s, s.response, NoError))]
               ELSE s
  IN /\ s.pc = "decide"
     /\ LoopAgain(s.options, s.response) => CountOf(s.log, "before") < MaxIter
     /\ d' = [d EXCEPT ![i] =
                IF LoopAgain(s.options, s.response)
                THEN [asked EXCEPT !.pc = LoopBody[1]]
                ELSE [asked EXCEPT !.pc = "returned",
                                   !.result = RouteResult(s.request, s.response)]]
     /\ UNCHANGED <<middleware, listeners, raised, registered, handedOff>>

\* a catch block that emits no error event under routeAsync
CatchQuietWhenAsync(i) ==
  LET s == d[i]
  IN /\ s.pc = "catch"
     /\ d' = [d EXCEPT ![i] =
                IF s.mode = "async"
                THEN [s EXCEPT !.thrown = s.error, !.pc = "raised"]
                ELSE [s EXCEPT !.log = Append(@, Logged("error", s, Missing, s.error)),
                               !.notified = Invoked(listeners, "error"),
                               !.thrown = Rethrown(s.error, listeners),
                               !.pc = "raised"]]
     /\ UNCHANGED <<middleware, listeners, raised, registered, handedOff>>

\* a catch block that puts the default error listener back when the error
\* event has no listener
CatchResubscribing(i) ==
  LET s == d[i]
  IN /\ s.pc = "catch"
     /\ d' = [d EXCEPT ![i] =
                [s EXCEPT !.log = Append(@, Logged("error", s, Missing, s.error)),
                          !.notified = Invoked(listeners, "error"),
                          !.thrown = Rethrown(s.error, listeners),
                          !.pc = "raised"]]
     /\ listeners' = IF listeners["error"] = <<>>
                     THEN EmitterOn(listeners, "error", defaultErrorListener)
                     ELSE listeners
     /\ UNCHANGED <<middleware, raised, registered, handedOff>>

\* catch (error): this.emitErrorEvent(normalisedRequest, error, normalisedContext); throw error
Catch(i) ==
  LET s == d[i]
  IN /\ s.pc = "catch"
     /\ d' = [d EXCEPT ![i] =
                [s EXCEPT !.log = Append(@, Logged("error", s, Missing, s.error)),
                          !.notified = Invoked(listeners, "error"),
                          !.thrown = Rethrown(s.error, listeners),
                          !.pc = "raised"]]
     /\ UNCHANGED <<middleware, listeners, raised, registered, handedOff>>

\* the caller has the outcome (the value or the exception; the settled promise)
Return(i) ==
  /\ d[i].pc \in {"returned", "raised"}
  /\ d' = [d EXCEPT ![i] = Idle]
  /\ UNCHANGED <<middleware, listeners, raised, registered, handedOff>>

-----------------------------------------------------------------------------
(* The router with one dispatch at a time *)

FirstArgs == {Fn, "get"}
Paths == {Undefined, "/x"}
Handlers == {Undefined, Static}

Init ==
  /\ middleware = <<>>
  /\ listeners = Constructed
  /\ d = [i \in {1} |-> Idle]
  /\ raised = NoError
  /\ registered = <<>>
  /\ handedOff = FALSE

Next ==
  \/ \E type \in Kinds, listener \in UserListeners : on(type, listener)
  \/ \E type \in Kinds, listener \in UserListeners : off(type, listener)
  \/ \E a \in FirstArgs, path \in Paths, h \in Handlers : use(a, path, h)
  \/ \E path \in Paths, h \in Handlers : get(path, h)
  \/ \E i \in DOMAIN d, request \in PartialRequests, o \in OptionsArgs : routeSync(i, request, o)
  \/ \E i \in DOMAIN d, request \in PartialRequests, o \in OptionsArgs : routeAsync(i, request, o)
  \/ \E i \in DOMAIN d : EmitBefore(i)
  \/ \E i \in DOMAIN d : Execute(i)
  \/ \E i \in DOMAIN d : Resume(i)
  \/ \E i \in DOMAIN d : EmitAfter(i)
  \/ \E i \in DOMAIN d : Decide(i)
  \/ \E i \in DOMAIN d : Catch(i)
  \/ \E i \in DOMAIN d : Return(i)

Spec == Init /\ [][Next]_vars

-----------------------------------------------------------------------------
(* Reading a dispatch's log *)

Slots == DOMAIN d

KindsOf(log) == [k \in 1..Len(log) |-> log[k].kind]

\* a dispatch that entered the try block and ended in the catch block
RaisedInLoop(s) == s.pc = "raised" /\ s.log # <<>>

\* the entries of the loop body proper: events and executor calls
RECURSIVE BodyOf(_)
BodyOf(kinds) ==
  IF kinds = <<>> THEN <<>>
  ELSE IF kinds[1] \in {"before", "exec", "after"}
       THEN <<kinds[1]>> \o BodyOf(Tail(kinds))
       ELSE BodyOf(Tail(kinds))

Hops(s) == CountOf(s.log, "before") - 1

IsPrefix(a, b) == Len(a) <= Len(b) /\ SubSeq(b, 1, Len(a)) = a

-----------------------------------------------------------------------------
(* The router under registrations and subscriptions only: use with every   *)
(* method pattern, each of the eight verb aliases, on and off              *)

Methods == {"*", "options", "head", "get", "post", "put", "patch", "delete"}

NextVerbs ==
  \/ \E type \in Kinds : on(type, Quiet)
  \/ \E type \in Kinds : off(type, Quiet)
  \/ \E a \in {Fn} \cup Methods, path \in Paths, h \in Handlers : use(a, path, h)
  \/ \E path \in Paths, h \in Handlers : all(path, h)
  \/ \E path \in Paths, h \in Handlers : options(path, h)
  \/ \E path \in Paths, h \in Handlers : head(path, h)
  \/ \E path \in Paths, h \in Handlers : get(path, h)
  \/ \E path \in Paths, h \in Handlers : post(path, h)
  \/ \E path \in Paths, h \in Handlers : put(path, h)
  \/ \E path \in Paths, h \in Handlers : patch(path, h)
  \/ \E path \in Paths, h \in Handlers : delete(path, h)

SpecVerbs == Init /\ [][NextVerbs]_vars

-----------------------------------------------------------------------------

(* The router with two routeAsync calls in flight, between registrations   *)
(* and subscriptions                                                       *)

InitAsync ==
  /\ middleware = <<>>
  /\ listeners = Constructed
  /\ d = [i \in {1, 2} |-> Idle]
  /\ raised = NoError
  /\ registered = <<>>
  /\ handedOff = FALSE

NextAsync ==
  \/ on("error", Quiet)
  \/ off("error", Quiet)
  \/ use(Fn, Undefined, Undefined)
  \/ \E path \in Paths, h \in Handlers : get(path, h)
  \/ \E o \in OptionsArgs : routeAsync(1, GetX, o)
  \/ \E o \in OptionsArgs : d[1].pc # "idle" /\ routeAsync(2, GetX, o)
  \/ \E i \in DOMAIN d : EmitBefore(i)
  \/ \E i \in DOMAIN d : Execute(i)
  \/ \E i \in DOMAIN d : Resume(i)
  \/ \E i \in DOMAIN d : EmitAfter(i)
  \/ \E i \in DOMAIN d : Decide(i)
  \/ \E i \in DOMAIN d : Catch(i)
  \/ \E i \in DOMAIN d : Return(i)

SpecAsync == InitAsync /\ [][NextAsync]_vars

-----------------------------------------------------------------------------

(* The router set up by registrations and subscriptions and then given the *)
(* same request and options twice, each call run alone: routeAsync first,  *)
(* routeSync once the promise has settled                                  *)

\* no dispatch call has been made yet
Pristine == \A i \in DOMAIN d : d[i] = Idle

\* the call is over and its locals are still there to be read
Finished(s) == s.pc = "idle" /\ s.mode # "none"

\* the caller has the outcome of call i; what the call went through is kept
Finish(i) ==
  /\ d[i].pc \in {"returned", "raised"}
  /\ d' = [d EXCEPT ![i].pc = "idle"]
  /\ UNCHANGED <<middleware, listeners, raised, registered, handedOff>>

\* the arguments are those of the call behind s
SameCall(s, request, optionsArg) ==
  IF NormaliseThrows(request)
  THEN s.request = Missing
  ELSE s.request = normaliseRequest(request) /\ s.options = OptionsOf(optionsArg)

PairRequests == {GetX, Malformed}

NextPair ==
  \/ \E type \in Kinds, listener \in UserListeners : Pristine /\ on(type, listener)
  \/ \E type \in Kinds, listener \in UserListeners : Pristine /\ off(type, listener)
  \/ Pristine /\ use(Fn, Undefined, Undefined)
  \/ Pristine /\ get("/x", Static)
  \/ \E request \in PairRequests, o \in OptionsArgs : Pristine /\ routeAsync(1, request, o)
  \/ \E request \in PairRequests, o \in OptionsArgs :
       Finished(d[1]) /\ d[2] = Idle /\ SameCall(d[1], request, o) /\ routeSync(2, request, o)
  \/ \E i \in DOMAIN d : EmitBefore(i)
  \/ \E i \in DOMAIN d : Execute(i)
  \/ \E i \in DOMAIN d : Resume(i)
  \/ \E i \in DOMAIN d : EmitAfter(i)
  \/ \E i \in DOMAIN d : Decide(i)
  \/ \E i \in DOMAIN d : Catch(i)
  \/ Finish(1)

SpecPair == InitAsync /\ [][NextPair]_vars

-----------------------------------------------------------------------------

(* C1: an exception raised inside the loop body is caught once: one error  *)
(* event, the last entry of the dispatch, carries that exception with the  *)
(* dispatch's request and context; the same exception leaves the call; no  *)
(* RouteResult is returned.                                                *)
C1_CaughtOnceAndRethrown ==
  \A i \in Slots :
    LET s == d[i]
    IN /\ \A k \in 1..Len(s.log) : s.log[k].kind = "error" => k = Len(s.log)
       /\ RaisedInLoop(s) =>
            /\ CountOf(s.log, "error") = 1
            /\ s.log[Len(s.log)] = Logged("error", s, Missing, s.error)
            /\ s.error # NoError
            /\ s.thrown = s.error
            /\ s.result = Missing

-----------------------------------------------------------------------------
(* C2: the default error listener is subscribed, alone, until the first    *)
(* on('error', ...) and is invoked once for every error event until then;  *)
(* from that call on it is never subscribed and never invoked again,       *)
(* whatever is called afterwards.                                          *)
C2_DefaultHandOffIsOneWay ==
  [][/\ handedOff => handedOff'
     /\ handedOff' => IndexOf(listeners'["error"], defaultErrorListener) = 0
     /\ ~handedOff' => listeners'["error"] = <<defaultErrorListener>>
     /\ \A i \in Slots :
          (d[i].pc = "catch" /\ d'[i].pc = "raised") =>
             IF handedOff
             THEN IndexOf(d'[i].notified, defaultErrorListener) = 0
             ELSE d'[i].notified = <<defaultErrorListener>>
    ]_vars

\* an error event after the user subscribed and unsubscribed their listener:
\* nobody is invoked
C2_Witness ==
  \E i \in Slots :
    /\ handedOff
    /\ listeners["error"] = <<>>
    /\ RaisedInLoop(d[i])
    /\ d[i].notified = <<>>

-----------------------------------------------------------------------------
(* C3: in every dispatch the events and executor calls come in the order   *)
(* before, executor, after, before, ...: one before ahead of each executor *)
(* call, one after behind each response and ahead of the loop decision; so *)
(* the after events number as many as the before events or one less, and   *)
(* an iteration whose executor throws has no after event.                  *)
C3_BeforeExecAfter ==
  \A i \in Slots :
    LET s == d[i]
        kinds == KindsOf(s.log)
        body == BodyOf(kinds)
        nBefore == CountOf(s.log, "before")
        nAfter == CountOf(s.log, "after")
    IN /\ \A k \in 1..Len(body) : body[k] = <<"before", "exec", "after">>[((k - 1) % 3) + 1]
       /\ nAfter \in {nBefore, nBefore - 1}
       /\ \A k \in 1..Len(kinds) :
            /\ kinds[k] = "classify" => k > 1 /\ kinds[k - 1] = "after"
            /\ kinds[k] = "after" => s.log[k].response # Missing
       /\ s.pc \in {"exec", "await"} => nBefore = CountOf(s.log, "exec") + (IF s.pc = "exec" THEN 1 ELSE 0)
       /\ s.pc \in {"decide", "returned"} => nAfter = nBefore /\ nAfter = CountOf(s.log, "exec")
       /\ (s.pc \in {"catch", "raised"} /\ s.error = MiddlewareError) =>
            nAfter = nBefore - 1 /\ body[Len(body)] = "exec"

\* the executor threw in the second iteration: two before events, one after
C3_Witness ==
  \E i \in Slots :
    /\ d[i].pc = "raised"
    /\ d[i].error = MiddlewareError
    /\ CountOf(d[i].log, "before") = 2
    /\ CountOf(d[i].log, "after") = 1

-----------------------------------------------------------------------------
(* C4: a dispatch that returns has redirected = false, url = the URL of    *)
(* the normalised request, and every other field as in the final response, *)
(* whatever fields the response has.                                       *)
C4_ResultForcesUrlAndRedirected ==
  \A i \in Slots :
    LET s == d[i]
    IN s.pc = "returned" =>
         /\ DOMAIN s.result = DOMAIN s.response \cup {"url", "redirected"}
         /\ s.result.redirected = FALSE
         /\ s.result.url = s.request.url
         /\ \A f \in DOMAIN s.response \ {"url", "redirected"} : s.result[f] = s.response[f]

-----------------------------------------------------------------------------
(* C5: with a falsy options.redirect the loop body runs once: one before   *)
(* event, one executor call, one after event, no call of the classifier,   *)
(* and the response is returned redirect or not; with options omitted,     *)
(* redirect is 'follow'.                                                   *)
C5_FalsyRedirectRunsOnce ==
  [][\A i \in Slots :
       LET s == d'[i]
       IN /\ (s.options # Missing /\ ~Truthy(s.options.redirect)) =>
               /\ CountOf(s.log, "before") <= 1
               /\ CountOf(s.log, "exec") <= 1
               /\ CountOf(s.log, "after") <= 1
               /\ CountOf(s.log, "classify") = 0
               /\ s.pc = "returned" =>
                    /\ KindsOf(s.log) = <<"before", "exec", "after">>
                    /\ s.result = RouteResult(s.request, s.log[3].response)
          /\ \A request \in PartialRequests \ {Malformed} :
               (routeSync(i, request, Omitted) \/ routeAsync(i, request, Omitted)) =>
                  s.options.redirect = "follow"
    ]_vars

\* a redirect response is returned, not followed, under a falsy redirect option
C5_Witness ==
  \E i \in Slots :
    /\ d[i].pc = "returned"
    /\ ~Truthy(d[i].options.redirect)
    /\ isRedirect(d[i].response)

-----------------------------------------------------------------------------
(* C6: the result's redirected field is true exactly when the loop body    *)
(* ran more than once, i.e. when a redirect hop occurred.  Stated for the  *)
(* final responses that carry no redirected field of their own (that case *)
(* is C4's).                                                               *)
C6_RedirectedIffHop ==
  \A i \in Slots :
    (d[i].pc = "returned" /\ "redirected" \notin DOMAIN d[i].response) =>
       (d[i].result.redirected = TRUE <=> Hops(d[i]) >= 1)

-----------------------------------------------------------------------------
(* C7: the middleware list holds one entry per registration call that did  *)
(* not raise, in call order, and every step of every operation keeps the   *)
(* entries already there, in place.                                        *)
C7_AppendOnlyInCallOrder ==
  [][/\ middleware' = registered'
     /\ IsPrefix(middleware, middleware')
     /\ Len(middleware') <= Len(middleware) + 1
    ]_vars

\* two different entries, registered in this order, and a dispatch has run
C7_Witness ==
  /\ middleware = <<RawMiddleware(Fn), createMiddleware("get", "/x", Static)>>
  /\ \E i \in Slots : d[i].pc = "await" /\ Len(d[i].log) > 2

-----------------------------------------------------------------------------
(* C8: whatever error listeners are subscribed, a dispatch whose loop body *)
(* raised E ends with the caller seeing E.                                 *)
C8_ListenersCannotReplaceError ==
  \A i \in Slots : (d[i].pc = "raised" /\ d[i].error # NoError) => d[i].thrown = d[i].error

-----------------------------------------------------------------------------
(* C9: a use call whose first argument is not a function and whose path or *)
(* middlewareOrResponse is falsy raises the argument error, leaves the     *)
(* middleware list as it was and emits no event.                           *)
C9_InvalidUseRaises ==
  [][\A a \in FirstArgs \ {Fn}, path \in Paths, h \in Handlers :
       (use(a, path, h) /\ ~(Truthy(path) /\ Truthy(h))) =>
          /\ raised' = TypeError
          /\ middleware' = middleware
          /\ \A i \in Slots : d'[i].log = d[i].log
    ]_vars

\* the argument error was raised with a list that already has an entry
C9_Witness == raised = TypeError /\ Len(middleware) = 1

-----------------------------------------------------------------------------
(* C10: use raises the argument error and appends nothing when a function  *)
(* is passed first together with further arguments that are not a path and *)
(* a handler; only a function passed alone is appended.                    *)
C10_FunctionWithMoreRaises ==
  [][\A path \in Paths, h \in Handlers :
       (use(Fn, path, h) /\ <<path, h>> # <<Undefined, Undefined>>
                         /\ ~(Truthy(path) /\ Truthy(h))) =>
          /\ raised' = TypeError
          /\ middleware' = middleware
    ]_vars

-----------------------------------------------------------------------------
(* C11: a dispatch whose request cannot be normalised fails from that same *)
(* call, synchronous or asynchronous, with the normaliser's error: no      *)
(* before, after or error event is emitted, no listener is invoked, the    *)
(* executor is not called and nothing is returned.                         *)
C11_NormaliseFailureLeavesTheCall ==
  [][\A i \in Slots :
       /\ \A o \in OptionsArgs :
            (routeSync(i, Malformed, o) \/ routeAsync(i, Malformed, o)) =>
               /\ d'[i].pc = "raised"
               /\ d'[i].thrown = NormaliseError
       /\ (NormaliseError \in {d'[i].thrown, d'[i].error}) =>
            /\ d'[i].pc = "raised"
            /\ d'[i].thrown = NormaliseError
            /\ d'[i].log = <<>>
            /\ d'[i].notified = <<>>
            /\ d'[i].result = Missing
    ]_vars

\* routeAsync rejected with the normaliser's error while a user error
\* listener was subscribed, and nobody was told
C11_Witness ==
  \E i \in Slots :
    /\ d[i].pc = "raised"
    /\ d[i].mode = "async"
    /\ d[i].thrown = NormaliseError
    /\ d[i].log = <<>>
    /\ listeners["error"] # <<>>
    /\ handedOff

\* the user listeners among the subscribed error listeners
UsersOf(handlers) == SelectSeq(handlers["error"], LAMBDA l : l # defaultErrorListener)

-----------------------------------------------------------------------------
(* C12 as stated: an error event of a dispatch is delivered to the default *)
(* listener when no user error listener is subscribed at that moment, and  *)
(* otherwise to every subscribed user error listener in subscription       *)
(* order, whatever on/off calls came before.                               *)
C12_EveryErrorReachesAListener ==
  \A i \in Slots :
    RaisedInLoop(d[i]) =>
       IF UsersOf(listeners) = <<>>
       THEN d[i].notified = <<defaultErrorListener>>
       ELSE d[i].notified = UsersOf(listeners)

(* C12 amended: until the first on('error', ...) the error event goes to   *)
(* the default listener alone; from then on it goes to the subscribed user *)
(* error listeners in subscription order, up to and including the first    *)
(* one that throws, and to nobody when none is subscribed.                 *)
C12_ErrorGoesToTheSubscribed ==
  \A i \in Slots :
    LET told == d[i].notified
        subs == listeners["error"]
    IN RaisedInLoop(d[i]) =>
         /\ ~handedOff => told = <<defaultErrorListener>>
         /\ handedOff =>
              /\ IsPrefix(told, subs)
              /\ \A k \in 1..(Len(told) - 1) : told[k] # Thrower
              /\ Len(told) < Len(subs) => (told # <<>> /\ told[Len(told)] = Thrower)
              /\ IndexOf(told, defaultErrorListener) = 0

\* two user error listeners were invoked in the order they subscribed
C12_Witness ==
  \E i \in Slots :
    /\ RaisedInLoop(d[i])
    /\ listeners["error"] = <<Quiet, Thrower>>
    /\ d[i].notified = <<Quiet, Thrower>>

-----------------------------------------------------------------------------
\* the step is what use(method, path, h) does from this state: one route
\* entry with that method pattern appended at the end, or the argument error
\* and the list as it was; the subscriptions and the dispatches untouched
AsUseWith(method, path, h) ==
  /\ middleware' = UseOutcome(middleware, method, path, h).middleware
  /\ raised' = UseOutcome(middleware, method, path, h).raised
  /\ IF Truthy(path) /\ Truthy(h)
     THEN /\ middleware' = middleware \o <<createMiddleware(method, path, h)>>
          /\ raised' = NoError
     ELSE /\ middleware' = middleware
          /\ raised' = TypeError
  /\ listeners' = listeners
  /\ handedOff' = handedOff
  /\ d' = d

(* C13: each verb alias called with (p, h) does what use(M, p, h) does     *)
(* from the same router state, M being '*' for all and the alias's name    *)
(* for the others: the same single entry appended at the end, or the same  *)
(* argument error and nothing appended when p or h is missing; the event   *)
(* subscriptions stay as they were.                                        *)
C13_AliasIsUseWithItsMethod ==
  [][\A path \in Paths, h \in Handlers :
       /\ all(path, h) => AsUseWith("*", path, h)
       /\ options(path, h) => AsUseWith("options", path, h)
       /\ head(path, h) => AsUseWith("head", path, h)
       /\ get(path, h) => AsUseWith("get", path, h)
       /\ post(path, h) => AsUseWith("post", path, h)
       /\ put(path, h) => AsUseWith("put", path, h)
       /\ patch(path, h) => AsUseWith("patch", path, h)
       /\ delete(path, h) => AsUseWith("delete", path, h)
    ]_vars

\* all and delete have registered, in this order, with listeners subscribed
C13_Witness ==
  /\ middleware = <<createMiddleware("*", "/x", Static), createMiddleware("delete", "/x", Static)>>
  /\ raised = NoError
  /\ listeners["before"] # <<>>
  /\ listeners["error"] = <<Quiet>>

-----------------------------------------------------------------------------
(* C14: within one dispatch call the normalised request and the context    *)
(* made at its start never change, every before, after and error event and *)
(* every executor call of every iteration carries exactly them, and the    *)
(* context's execution tag is Synchronous under routeSync and Asynchronous *)
(* under routeAsync from the first step to the last.                       *)
C14_RequestAndContextFixed ==
  [][\A i \in Slots :
       LET s == d[i]
           t == d'[i]
       IN /\ (s.pc # "idle" /\ t.pc # "idle") =>
               /\ t.request = s.request
               /\ t.context = s.context
               /\ t.mode = s.mode
          /\ \A k \in 1..Len(t.log) :
               /\ t.log[k].request = t.request
               /\ t.log[k].context = t.context
          /\ (s.pc = "idle" /\ t.pc = "before") =>
               \A request \in PartialRequests \ {Malformed}, o \in OptionsArgs :
                 /\ routeSync(i, request, o) =>
                      /\ t.request = normaliseRequest(request)
                      /\ t.context.execution = "Synchronous"
                 /\ routeAsync(i, request, o) =>
                      /\ t.request = normaliseRequest(request)
                      /\ t.context.execution = "Asynchronous"
          /\ t.context # Missing =>
               t.context.execution = (IF t.mode = "sync" THEN "Synchronous" ELSE "Asynchronous")
    ]_vars

\* an asynchronous dispatch in its second iteration, entered after a redirect,
\* whose error event carries the request and context of its first before event
C14_Witness ==
  \E i \in Slots :
    LET s == d[i]
    IN /\ s.pc = "raised"
       /\ s.mode = "async"
       /\ CountOf(s.log, "before") = 2
       /\ s.log[Len(s.log)].kind = "error"
       /\ s.log[Len(s.log)].request = s.log[1].request
       /\ s.log[Len(s.log)].context.execution = "Asynchronous"
       /\ s.request = PostX

-----------------------------------------------------------------------------
\* the responses of a dispatch's after events, in order
AfterResponses(log) ==
  LET afters == SelectSeq(log, LAMBDA e : e.kind = "after")
  IN [k \in 1..Len(afters) |-> afters[k].response]

(* C15: with a truthy options.redirect a dispatch returns exactly when an  *)
(* executor call has yielded a response that is not a redirect: at the     *)
(* loop decision a redirect response always leads to the next before event *)
(* for the same request and never to the return, a non-redirect response   *)
(* always to the return; so a returned dispatch has redirects in all its   *)
(* after events but the last, and a dispatch whose executor only yields    *)
(* redirects, with nothing thrown, goes round for ever.                    *)
C15_ReturnsExactlyOnNonRedirect ==
  [][\A i \in Slots :
       LET s == d[i]
           t == d'[i]
           seen == AfterResponses(t.log)
       IN /\ (s.pc = "decide" /\ Truthy(s.options.redirect) /\ t # s) =>
               IF isRedirect(s.response)
               THEN /\ t.pc = "before"
                    /\ t.result = Missing
                    /\ t.request = s.request
               ELSE /\ t.pc = "returned"
                    /\ t.result # Missing
          /\ (t.pc \in {"before", "exec", "await", "after"} /\ Truthy(t.options.redirect)) =>
               \A k \in 1..Len(seen) : isRedirect(seen[k])
          /\ (t.pc = "returned" /\ Truthy(t.options.redirect)) =>
               /\ seen # <<>>
               /\ ~isRedirect(seen[Len(seen)])
               /\ \A k \in 1..(Len(seen) - 1) : isRedirect(seen[k])
    ]_vars

\* two iterations done, both responses redirects, nothing returned: the loop
\* decision can only start a third
C15_Witness ==
  \E i \in Slots :
    LET s == d[i]
    IN /\ s.pc = "decide"
       /\ Truthy(s.options.redirect)
       /\ CountOf(s.log, "before") >= 2
       /\ CountOf(s.log, "after") = CountOf(s.log, "before")
       /\ \A k \in 1..Len(AfterResponses(s.log)) : isRedirect(AfterResponses(s.log)[k])
       /\ s.result = Missing
       /\ s.error = NoError

-----------------------------------------------------------------------------
(* C16: no step of a dispatch call, from the call to the hand-over of its  *)
(* value or exception, changes the middleware list or the subscriptions of *)
(* any event kind, the default error listener's included.                  *)
C16_DispatchLeavesRouterState ==
  [][(\E i \in Slots : d'[i] # d[i]) =>
        /\ middleware' = middleware
        /\ \A type \in Kinds : listeners'[type] = listeners[type]
        /\ (IndexOf(listeners'["error"], defaultErrorListener) # 0)
             = (IndexOf(listeners["error"], defaultErrorListener) # 0)
    ]_vars

\* a dispatch of two iterations has ended in the catch block with nobody
\* subscribed for the error event, under a list of two and an after listener
C16_Witness ==
  \E i \in Slots :
    /\ d[i].pc = "raised"
    /\ CountOf(d[i].log, "before") = 2
    /\ Len(middleware) = 2
    /\ listeners["after"] # <<>>
    /\ listeners["error"] = <<>>

-----------------------------------------------------------------------------
\* the positions of a call between two suspension points
Running(s) == s.pc \notin {"idle", "await"}

(* C17: a routeAsync call is suspended at its executor call and nowhere    *)
(* else.  While a call is between two suspension points no other call      *)
(* takes a step: the other dispatches, the middleware list and the         *)
(* subscriptions stay as they are; a resumed call goes through its after   *)
(* emission, its loop decision and then its return, or its next before     *)
(* emission and executor call, before anything else runs.  The events of   *)
(* each dispatch come in the order before, after, before, after, ...       *)
C17_SuspendedOnlyAtTheExecutor ==
  [][\A i \in Slots :
       LET s == d[i]
           t == d'[i]
           events == SelectSeq(KindsOf(t.log), LAMBDA kind : kind \in {"before", "after"})
       IN /\ Running(s) =>
               /\ \A j \in Slots \ {i} : d'[j] = d[j]
               /\ middleware' = middleware
               /\ listeners' = listeners
               /\ t # s
          /\ (s.pc = "await" /\ t # s) => t.pc \in {"after", "catch"}
          /\ s.pc = "after" => t.pc \in {"decide", "catch"}
          /\ s.pc = "decide" => t.pc \in {"before", "returned"}
          /\ (s.pc = "before" /\ s.log # <<>>) => t.pc \in {"exec", "catch"}
          /\ (s.pc = "exec" /\ s.mode = "async") => t.pc = "await"
          /\ (t.pc = "await" /\ t # s) => s.pc = "exec"
          /\ \A k \in 1..Len(events) : events[k] = (IF k % 2 = 1 THEN "before" ELSE "after")
    ]_vars

\* one call has been resumed into its second iteration and is about to call
\* the executor again, while the other is suspended in its first
C17_Witness ==
  /\ d[1].pc = "exec"
  /\ CountOf(d[1].log, "before") = 2
  /\ d[2].pc = "await"
  /\ CountOf(d[2].log, "before") = 1
  /\ listeners["error"] = <<Quiet>>

-----------------------------------------------------------------------------
\* the lists a dispatch has handed to the executor, one per iteration
HandedLists(log) ==
  LET execs == SelectSeq(log, LAMBDA e : e.kind = "exec")
  IN [k \in 1..Len(execs) |-> execs[k].list]

(* C19: every executor call of every dispatch is handed the router's       *)
(* middleware list as it is at that call, and the iteration is decided by  *)
(* that list: entries appended by use or an alias while a routeAsync call  *)
(* was suspended are in the list of its next iteration, and the lists      *)
(* handed to two dispatches in flight differ only by what was appended     *)
(* between the two calls.                                                  *)
C19_ExecutorGetsTheLiveList ==
  [][\A i \in Slots :
       LET s == d[i]
           t == d'[i]
           lists == HandedLists(t.log)
       IN /\ (s.pc = "exec" /\ t.pc # "exec") =>
               /\ Len(lists) = CountOf(s.log, "exec") + 1
               /\ lists[Len(lists)] = middleware
          /\ (s.pc = "await" /\ t.pc \in {"after", "catch"}) =>
               (IF t.pc = "after" THEN Responds(t.response) ELSE Throws(t.error))
                  \in ChainOutcomes(s.request, s.context, lists[Len(lists)])
          /\ \A k \in 1..Len(lists) : IsPrefix(lists[k], middleware')
          /\ \A j \in Slots :
               LET others == HandedLists(d'[j].log)
               IN \A k \in 1..Len(lists), n \in 1..Len(others) :
                    IsPrefix(lists[k], others[n]) \/ IsPrefix(others[n], lists[k])
    ]_vars

\* get registered a route while the first call was suspended in its first
\* iteration: its second iteration and the other call's first were handed
\* the list with the new entry
C19_Witness ==
  /\ d[1].pc = "await"
  /\ d[2].pc = "await"
  /\ HandedLists(d[1].log) = <<  <<RawMiddleware(Fn)>>,
                                 <<RawMiddleware(Fn), createMiddleware("get", "/x", Static)>>  >>
  /\ HandedLists(d[2].log) = << <<RawMiddleware(Fn), createMiddleware("get", "/x", Static)>> >>

-----------------------------------------------------------------------------
\* what the executor did at each call of a dispatch, read off the entry that
\* follows the call: the response of the after event, or the exception caught
ExecutorDid(log) ==
  LET at == SelectSeq([k \in 1..Len(log) |-> k], LAMBDA k : log[k].kind = "exec" /\ k < Len(log))
  IN [n \in 1..Len(at) |-> [response |-> log[at[n] + 1].response, error |-> log[at[n] + 1].error]]

\* the entries of a log without the context they carry
PayloadsOf(log) ==
  [k \in 1..Len(log) |-> [f \in DOMAIN log[k] \ {"context"} |-> log[k][f]]]

(* C18: routeAsync and routeSync, each run alone from the same router      *)
(* state with the same request and options and with the executor doing the *)
(* same at every call, go through the same events and calls in the same    *)
(* order with the same request, response and error in each, their contexts *)
(* differing in the execution tag only; the same listeners are invoked;    *)
(* the promise resolves with the RouteResult routeSync returns or rejects  *)
(* with the exception routeSync raises.                                    *)
C18_AsyncIsSyncButForSuspension ==
  LET a == d[1]
      s == d[2]
  IN (/\ Finished(a) /\ a.mode = "async"
      /\ s.pc \in {"returned", "raised"} /\ s.mode = "sync"
      /\ a.request = s.request /\ a.options = s.options
      /\ ExecutorDid(a.log) = ExecutorDid(s.log)) =>
        /\ KindsOf(a.log) = KindsOf(s.log)
        /\ PayloadsOf(a.log) = PayloadsOf(s.log)
        /\ \A k \in 1..Len(a.log) :
             /\ a.log[k].context = [execution |-> "Asynchronous"]
             /\ s.log[k].context = [execution |-> "Synchronous"]
        /\ a.notified = s.notified
        /\ a.result = s.result
        /\ a.thrown = s.thrown
        /\ (a.result = Missing) = (s.pc = "raised")

\* both calls went round twice after a redirect and ended in the catch block
\* on what the executor threw, with an error listener told
C18_Witness ==
  /\ Finished(d[1]) /\ d[1].mode = "async"
  /\ d[2].pc = "raised" /\ d[2].mode = "sync"
  /\ KindsOf(d[2].log) = <<"before", "exec", "after", "classify", "before", "exec", "error">>
  /\ KindsOf(d[1].log) = KindsOf(d[2].log)
  /\ d[2].notified = <<Quiet>>
  /\ d[2].thrown = MiddlewareError

====
